---------------------------- MODULE Spec2Model ----------------------------
(***************************************************************************)
(* A model of the AgentFlow workflow execution engine                      *)
(* (agentflow/core/engine.py, agentflow/core/task.py,                      *)
(* agentflow/core/workflow.py).                                            *)
(*                                                                         *)
(* One WorkflowEngine executes one Workflow of NumTasks tasks.  execute is *)
(* an asyncio coroutine: it runs atomically up to `await asyncio.gather`,  *)
(* the _execute_task coroutines of the round then run interleaved (each    *)
(* atomically up to its `await asyncio.wait_for`, and again from the       *)
(* agent's outcome to its end), and execute resumes when all of them are   *)
(* done.  The agent is the environment: for each invocation it returns a   *)
(* result, raises, or does not answer before the task's timeout.           *)
(***************************************************************************)
EXTENDS Integers, Sequences, FiniteSets, TLC

\* ------------------------------------------------------------------ bounds
NumTasks == 3          \* tasks of the workflow under execution
MaxDirectCalls == 4    \* direct calls of mark_failed on one task (TaskSpec)
MaxRegistrations == 4  \* calls of register_agent (RegistrySpec)
MaxListLen == 3        \* length of the id list given to is_ready (ReadySpec)

Tasks == 1..NumTasks

\* ------------------------------------------------------- program constants
DefaultMaxRetries == 3

Names == <<"T1", "T2", "T3", "T4", "T5", "T6", "T7", "T8", "T9", "T10">>
TaskName(t) == Names[t]

\* Values of the optional fields and of the agents' results, all of one
\* shape: Python's None, an error text, a mapping, a value that is no mapping.
None == [kind |-> "None", ref |-> <<>>]
TimeoutMsg(t) == [kind |-> "timed out", ref |-> <<TaskName(t)>>]
NoAgentMsg(aid) == [kind |-> "No agent found with id", ref |-> <<aid>>]
ExcMsg(e) == [kind |-> "exception", ref |-> <<e>>]

\* What an agent's run may return: a mapping {"k": "d"}, or the string "s".
Results == {[kind |-> "dict", ref |-> <<"k", "d">>], [kind |-> "str", ref |-> <<"s">>]}
\* What an agent's run may raise (str(e)).
Exceptions == {"boom"}

\* The agents registered with the engine before execute is called.
RegisteredAgents == {"a1"}

\* Agent(name, agent_id): the fields of the dataclass the engine reads.
Agent(name, id) == [name |-> name, agent_id |-> id]

\* The empty dict.
NoAgents == [a \in {} |-> a]

\* No function is being called on its own, and no overlapping execute calls.
NoCall == [op |-> "none"]

VARIABLES
    tasks,               \* workflow.tasks: position -> the Task object's fields
    agents,              \* WorkflowEngine._agents (agent id -> agent)
    wf_status,           \* Workflow.status
    running_workflows,   \* WorkflowEngine._running_workflows (workflow ids)
    completed_task_ids,  \* WorkflowEngine._completed_task_ids (a list)
    pending_tasks,       \* execute's local pending_tasks (a list of tasks)
    ready_tasks,         \* execute's local ready_tasks (a list of tasks)
    iteration,           \* execute's local iteration
    pc,                  \* where execute is
    tpc,                 \* where each task's _execute_task coroutine is
    run,                 \* execute calls so far: "never", "first" (one), "later" (more)
    outcome,             \* what the agent did when last invoked for the task
    mark_failed_calls,   \* how many times mark_failed was called on each task
    agent_result,        \* what the agent's run returned when it last returned
    requests,            \* ApprovalQueue._requests (the task ids that have a request)
    req_status,          \* ApprovalRequest.status
    resolved_at,         \* ApprovalRequest.resolved_at is not None
    future,              \* ApprovalRequest._future
    timer,               \* the timeout handle of wait's asyncio.wait_for
    wpc,                 \* where the coroutine of ApprovalRequest.wait is
    wait_result,         \* what wait returned
    wait_for_impl,       \* which asyncio.wait_for the interpreter has
    first_call,          \* the first of approve / reject called on the request
    first_call_timer,    \* the state of the timeout handle at that call
    registrations,       \* the agents given to register_agent so far, in call order
    call,                \* a function called on its own: its arguments and its result
    calls                \* execute calls overlapping on one engine: per workflow, the
                         \* workflow, its tasks and the call's locals

vars == <<tasks, agents, wf_status, running_workflows, completed_task_ids,
          pending_tasks, ready_tasks, iteration, pc, tpc, run, outcome, mark_failed_calls,
          agent_result, requests, req_status, resolved_at, future, timer, wpc,
          wait_result, wait_for_impl, first_call, first_call_timer,
          registrations, call, calls>>

\* The variables of the direct calls and of the overlapping calls.
directVars == <<registrations, call, calls>>

approvalVars == <<requests, req_status, resolved_at, future, timer, wpc,
                  wait_result, wait_for_impl, first_call, first_call_timer>>

WorkflowId == "w1"

\* ------------------------------------------------------------------ Task
Range(s) == {s[i] : i \in DOMAIN s}

\* Task(...): the dataclass with its defaults; the caller gives the rest.
Task(id, deps, prio, aid, retries, approval) ==
    [task_id |-> id, name |-> TaskName(id), agent_id |-> aid, input_data |-> "in",
     output_data |-> None, dependencies |-> deps, status |-> "pending",
     priority |-> prio, requires_approval |-> approval, max_retries |-> retries,
     retry_count |-> 0, timeout_seconds |-> 60, error |-> None]

\* is_ready with any() in place of all().
is_ready_any(task, ids) ==
    task.dependencies = {} \/ \E dep \in task.dependencies : dep \in Range(ids)

\* Task.is_ready: all(dep in completed_task_ids for dep in self.dependencies)
is_ready(task, ids) == \A dep \in task.dependencies : dep \in Range(ids)

\* can_retry off by one.
can_retry_inclusive(task) == task.retry_count <= task.max_retries

\* Task.can_retry
can_retry(task) == task.retry_count < task.max_retries

\* Task.mark_running
mark_running(task) == [task EXCEPT !.status = "running"]

\* mark_completed that also empties the task's dependency list.
mark_completed_drops_dependencies(task, output) ==
    [task EXCEPT !.status = "completed", !.output_data = output, !.dependencies = {}]

\* Task.mark_completed
mark_completed(task, output) ==
    [task EXCEPT !.status = "completed", !.output_data = output]

\* mark_failed that leaves retry_count alone.
mark_failed_keeps_count(task, err) ==
    [task EXCEPT !.status = "failed", !.error = err]

\* Task.mark_failed
mark_failed(task, err) ==
    [task EXCEPT !.status = "failed", !.error = err, !.retry_count = @ + 1]

\* ------------------------------------------------------- ApprovalRequest
\* The comment / reason texts a resolver may pass.
Comments == {"", "c"}

\* The mappings approve and reject give to the future, and wait's on expiry.
Approved(comment) == [kind |-> "approved", ref |-> <<"comment", comment>>]
Rejected(reason) == [kind |-> "rejected", ref |-> <<"reason", reason>>]
Expired == [kind |-> "expired", ref |-> <<>>]

\* An asyncio.Future: pending, done with a result, or cancelled.
PendingFuture == [state |-> "pending", result |-> None]

\* asyncio.wait_for up to Python 3.11 waits on a helper future and looks at
\* the awaited future when it resumes; from 3.12 it is asyncio.timeout,
\* which cancels the waiting task.  setup.py allows both (>= 3.9).
WaitForImpls == {"waiter", "timeout"}

\* No function is called on its own and execute calls do not overlap.
NoDirectCalls ==
    /\ registrations = <<>>
    /\ call = NoCall
    /\ calls = <<>>

\* No request has been created: the queue is empty.
NoApprovalRequest ==
    /\ requests = {}
    /\ req_status = "pending"
    /\ resolved_at = FALSE
    /\ future = PendingFuture
    /\ timer = "none"
    /\ wpc = "idle"
    /\ wait_result = None
    /\ wait_for_impl = "waiter"
    /\ first_call = "none"
    /\ first_call_timer = "none"

\* ------------------------------------------------------------ the inputs
\* The per-task settings a caller may choose (priority, agent_id,
\* max_retries, requires_approval); the first is the dataclass's defaults
\* with a registered agent.
Profiles ==
    { [priority |-> "medium", agent_id |-> "a1", max_retries |-> DefaultMaxRetries, requires_approval |-> FALSE],
      [priority |-> "critical", agent_id |-> "a1", max_retries |-> DefaultMaxRetries, requires_approval |-> FALSE],
      [priority |-> "low", agent_id |-> "a1", max_retries |-> 1, requires_approval |-> FALSE],
      [priority |-> "medium", agent_id |-> "None", max_retries |-> DefaultMaxRetries, requires_approval |-> FALSE],
      [priority |-> "medium", agent_id |-> "a2", max_retries |-> DefaultMaxRetries, requires_approval |-> FALSE],
      [priority |-> "high", agent_id |-> "a1", max_retries |-> DefaultMaxRetries, requires_approval |-> TRUE] }

DefaultProfile ==
    [priority |-> "medium", agent_id |-> "a1", max_retries |-> DefaultMaxRetries, requires_approval |-> FALSE]

\* Dependency graphs: any task may depend on any other tasks (cycles too).
Graphs == {g \in [Tasks -> SUBSET Tasks] : \A t \in Tasks : t \notin g[t]}

\* T1 without dependencies, every other task depending on T1.
FanOut == [t \in Tasks |-> IF t = 1 THEN {} ELSE {1}]

\* The workflows executed: every dependency graph with default settings,
\* and the fan-out graph with every choice of settings.
Workflows ==
    {[deps |-> g, prof |-> [t \in Tasks |-> DefaultProfile]] : g \in Graphs}
    \cup {[deps |-> FanOut, prof |-> p] : p \in [Tasks -> Profiles]}

NewTasks(w) ==
    [t \in Tasks |-> Task(t, w.deps[t], w.prof[t].priority, w.prof[t].agent_id,
                          w.prof[t].max_retries, w.prof[t].requires_approval)]

Init ==
    /\ \E w \in Workflows : tasks = NewTasks(w)
    /\ agents = [a \in RegisteredAgents |-> Agent("Worker", a)]
    /\ wf_status = "pending"
    /\ running_workflows = {}
    /\ completed_task_ids = <<>>
    /\ pending_tasks = <<>>
    /\ ready_tasks = <<>>
    /\ iteration = 0
    /\ pc = "idle"
    /\ tpc = [t \in Tasks |-> "idle"]
    /\ run = "never"
    /\ outcome = [t \in Tasks |-> "none"]
    /\ mark_failed_calls = [t \in Tasks |-> 0]
    /\ agent_result = [t \in Tasks |-> None]
    /\ NoDirectCalls
    /\ NoApprovalRequest

\* ------------------------------------------------------- WorkflowEngine
\* list(workflow.tasks)
WorkflowTasks == [i \in 1..NumTasks |-> i]

\* max_iterations = len(pending_tasks) * 2
max_iterations == Len(WorkflowTasks) * 2

\* The readiness test without the status check.
ReadyTestNoStatus(t) == is_ready(tasks[t], completed_task_ids)

\* A readiness test that also takes failed tasks (a retry).
ReadyTestRetriesFailed(t) ==
    is_ready(tasks[t], completed_task_ids) /\ tasks[t].status \in {"pending", "failed"}

\* The ready_tasks comprehension of execute.
ReadyTest(t) == is_ready(tasks[t], completed_task_ids) /\ tasks[t].status = "pending"

\* A ready set that keeps only the ready tasks of the highest priority.
PriorityRank(p) ==
    CASE p = "low" -> 0 [] p = "medium" -> 1 [] p = "high" -> 2 [] p = "critical" -> 3

TopPriorityTest(t) ==
    /\ ReadyTest(t)
    /\ \A u \in Range(pending_tasks) :
          ReadyTest(u) =>
              PriorityRank(tasks[u].priority) <= PriorityRank(tasks[t].priority)

ReadyTasksTopPriority == SelectSeq(pending_tasks, TopPriorityTest)

\* ready_tasks: the pending tasks that pass the test, in list order.
ReadyTasks == SelectSeq(pending_tasks, ReadyTest)

\* A filter that keeps the failed tasks in the pending list too.
NotCompletedTest(t) == tasks[t].status \in {"pending", "failed"}
StillPendingOrFailed == SelectSeq(pending_tasks, NotCompletedTest)

\* The pending_tasks comprehension after the round.
StillPendingTest(t) == tasks[t].status = "pending"
StillPending == SelectSeq(pending_tasks, StillPendingTest)

\* A gather that returns as soon as one coroutine has finished.
GatherDoneAny == \E t \in Range(ready_tasks) : tpc[t] = "done"

\* asyncio.gather returns when every coroutine it was given has finished.
GatherDone == \A t \in Range(ready_tasks) : tpc[t] = "done"

\* execute that does not set workflow.status at its start.
ExecuteKeepsStatus ==
    /\ pc \in {"idle", "done"}
    /\ run' = IF run = "never" THEN "first" ELSE "later"
    /\ running_workflows' = running_workflows \cup {WorkflowId}
    /\ completed_task_ids' = <<>>
    /\ pending_tasks' = WorkflowTasks
    /\ iteration' = 0
    /\ pc' = "loop"
    /\ UNCHANGED <<tasks, agents, wf_status, ready_tasks, tpc, outcome, mark_failed_calls,
                   approvalVars, directVars, agent_result>>

\* execute, from the call to the loop.  It may be called again on the same
\* workflow once it has returned, any number of times.
Execute ==
    /\ pc \in {"idle", "done"}
    /\ run' = IF run = "never" THEN "first" ELSE "later"
    /\ wf_status' = "running"
    /\ running_workflows' = running_workflows \cup {WorkflowId}
    /\ completed_task_ids' = <<>>
    /\ pending_tasks' = WorkflowTasks
    /\ iteration' = 0
    /\ pc' = "loop"
    /\ UNCHANGED <<tasks, agents, ready_tasks, tpc, outcome, mark_failed_calls,
                   approvalVars, directVars, agent_result>>

\* The while condition fails: the loop is left.
LoopExit ==
    /\ pc = "loop"
    /\ ~(pending_tasks # <<>> /\ iteration < max_iterations)
    /\ pc' = "final"
    /\ UNCHANGED <<tasks, agents, wf_status, running_workflows, completed_task_ids,
                   pending_tasks, ready_tasks, iteration, tpc, run, outcome, mark_failed_calls,
                   approvalVars, directVars, agent_result>>

\* An iteration that finds no ready task: break.
LoopBreak ==
    /\ pc = "loop"
    /\ pending_tasks # <<>> /\ iteration < max_iterations
    /\ ReadyTasks = <<>>
    /\ iteration' = iteration + 1
    /\ ready_tasks' = ReadyTasks
    /\ pc' = "final"
    /\ UNCHANGED <<tasks, agents, wf_status, running_workflows, completed_task_ids,
                   pending_tasks, tpc, run, outcome, mark_failed_calls,
                   approvalVars, directVars, agent_result>>

\* An iteration that hands its ready tasks to asyncio.gather.
LoopDispatch ==
    /\ pc = "loop"
    /\ pending_tasks # <<>> /\ iteration < max_iterations
    /\ ReadyTasks # <<>>
    /\ iteration' = iteration + 1
    /\ ready_tasks' = ReadyTasks
    /\ tpc' = [t \in Tasks |-> IF t \in Range(ReadyTasks) THEN "start" ELSE tpc[t]]
    /\ pc' = "gather"
    /\ UNCHANGED <<tasks, agents, wf_status, running_workflows, completed_task_ids,
                   pending_tasks, run, outcome, mark_failed_calls,
                   approvalVars, directVars, agent_result>>

\* The event loop starts the coroutines of a gather in the order given.
StartsNext(t) ==
    \E i \in DOMAIN ready_tasks :
        /\ ready_tasks[i] = t
        /\ \A j \in 1..(i - 1) : tpc[ready_tasks[j]] # "start"

\* _execute_task without the agent lookup: the agent is awaited whatever
\* the registry holds.
ExecStartNoLookup(t) ==
    /\ pc = "gather"
    /\ tpc[t] = "start"
    /\ StartsNext(t)
    /\ tasks' = [tasks EXCEPT ![t] = mark_running(@)]
    /\ tpc' = [tpc EXCEPT ![t] = "await"]
    /\ outcome' = [outcome EXCEPT ![t] = "none"]
    /\ UNCHANGED <<agents, wf_status, running_workflows, completed_task_ids,
                   pending_tasks, ready_tasks, iteration, pc, run,
                   mark_failed_calls, approvalVars, directVars, agent_result>>

\* _execute_task up to its await: mark_running, the agent lookup, and the
\* ValueError handled by `except Exception` when there is no such agent.
ExecStart(t) ==
    /\ pc = "gather"
    /\ tpc[t] = "start"
    /\ StartsNext(t)
    /\ IF tasks[t].agent_id \in DOMAIN agents
         THEN /\ tasks' = [tasks EXCEPT ![t] = mark_running(@)]
              /\ tpc' = [tpc EXCEPT ![t] = "await"]
              /\ outcome' = [outcome EXCEPT ![t] = "none"]
              /\ UNCHANGED mark_failed_calls
         ELSE /\ tasks' = [tasks EXCEPT ![t] =
                              mark_failed(mark_running(@), NoAgentMsg(@.agent_id))]
              /\ tpc' = [tpc EXCEPT ![t] = "done"]
              /\ outcome' = [outcome EXCEPT ![t] = "no agent"]
              /\ mark_failed_calls' = [mark_failed_calls EXCEPT ![t] = @ + 1]
    /\ UNCHANGED <<agents, wf_status, running_workflows, completed_task_ids,
                   pending_tasks, ready_tasks, iteration, pc, run, approvalVars, directVars, agent_result>>

\* The result stored as the agent returned it.
CoerceNothing(result) == result

\* result if isinstance(result, dict) else {"result": result}
Coerce(result) ==
    IF result.kind = "dict" THEN result
    ELSE [kind |-> "dict", ref |-> <<"result">> \o result.ref]

\* A success that is not recorded in _completed_task_ids.
AgentReturnNoAppend(t, result) ==
    /\ pc = "gather"
    /\ tpc[t] = "await"
    /\ tasks' = [tasks EXCEPT ![t] = mark_completed(@, Coerce(result))]
    /\ tpc' = [tpc EXCEPT ![t] = "done"]
    /\ outcome' = [outcome EXCEPT ![t] = "returned"]
    /\ agent_result' = [agent_result EXCEPT ![t] = result]
    /\ UNCHANGED <<agents, wf_status, running_workflows, completed_task_ids, pending_tasks,
                   ready_tasks, iteration, pc, run, mark_failed_calls, approvalVars,
                   directVars>>

\* The agent's run returns in time: mark_completed and the append.
AgentReturn(t, result) ==
    /\ pc = "gather"
    /\ tpc[t] = "await"
    /\ tasks' = [tasks EXCEPT ![t] = mark_completed(@, Coerce(result))]
    /\ completed_task_ids' = Append(completed_task_ids, tasks[t].task_id)
    /\ tpc' = [tpc EXCEPT ![t] = "done"]
    /\ outcome' = [outcome EXCEPT ![t] = "returned"]
    /\ agent_result' = [agent_result EXCEPT ![t] = result]
    /\ UNCHANGED <<agents, wf_status, running_workflows, pending_tasks,
                   ready_tasks, iteration, pc, run, mark_failed_calls, approvalVars, directVars>>

\* A timeout that fails every task still running, not only its own.
OnTimeoutAbortRound(t) ==
    [u \in Tasks |->
        IF u = t \/ tasks[u].status = "running"
          THEN mark_failed(tasks[u], TimeoutMsg(t)) ELSE tasks[u]]

\* What the except clauses of _execute_task do to the task.
OnTimeout(t) == [tasks EXCEPT ![t] = mark_failed(@, TimeoutMsg(t))]
OnException(t, e) == [tasks EXCEPT ![t] = mark_failed(@, ExcMsg(e))]

\* asyncio.wait_for raises TimeoutError: the agent did not answer in time.
AgentTimeout(t) ==
    /\ pc = "gather"
    /\ tpc[t] = "await"
    /\ tasks' = OnTimeout(t)
    /\ tpc' = [tpc EXCEPT ![t] = "done"]
    /\ outcome' = [outcome EXCEPT ![t] = "timeout"]
    /\ mark_failed_calls' = [mark_failed_calls EXCEPT ![t] = @ + 1]
    /\ UNCHANGED <<agents, wf_status, running_workflows, completed_task_ids,
                   pending_tasks, ready_tasks, iteration, pc, run, approvalVars, directVars, agent_result>>

\* The agent's run raises an Exception.
AgentRaise(t, e) ==
    /\ pc = "gather"
    /\ tpc[t] = "await"
    /\ tasks' = OnException(t, e)
    /\ tpc' = [tpc EXCEPT ![t] = "done"]
    /\ outcome' = [outcome EXCEPT ![t] = "raised"]
    /\ mark_failed_calls' = [mark_failed_calls EXCEPT ![t] = @ + 1]
    /\ UNCHANGED <<agents, wf_status, running_workflows, completed_task_ids,
                   pending_tasks, ready_tasks, iteration, pc, run, approvalVars, directVars, agent_result>>

\* gather returns; the pending list is filtered.
GatherReturn ==
    /\ pc = "gather"
    /\ GatherDone
    /\ pending_tasks' = StillPending
    /\ tpc' = [t \in Tasks |-> IF tpc[t] = "done" THEN "idle" ELSE tpc[t]]
    /\ pc' = "loop"
    /\ UNCHANGED <<tasks, agents, wf_status, running_workflows, completed_task_ids,
                   ready_tasks, iteration, run, outcome, mark_failed_calls,
                   approvalVars, directVars, agent_result>>

\* The final status read from the tasks still listed as pending.
FinalStatusOfPending ==
    IF \E t \in Range(pending_tasks) : tasks[t].status = "failed"
      THEN "failed" ELSE "completed"

\* failed_tasks, over all of workflow.tasks, and the final status.
\* (The loop raises nothing: gather is called with return_exceptions=True
\* and _execute_task catches Exception, so `except Exception` of execute is
\* not taken.)
FinalStatus ==
    IF \E t \in Tasks : tasks[t].status = "failed" THEN "failed" ELSE "completed"

\* The final status, the finally clause, and the return.
Finalize ==
    /\ pc = "final"
    /\ wf_status' = FinalStatus
    /\ running_workflows' = running_workflows \ {WorkflowId}
    /\ pc' = "done"
    /\ UNCHANGED <<tasks, agents, completed_task_ids, pending_tasks, ready_tasks,
                   iteration, tpc, run, outcome, mark_failed_calls,
                   approvalVars, directVars, agent_result>>

Next ==
    \/ Execute
    \/ LoopExit
    \/ LoopBreak
    \/ LoopDispatch
    \/ \E t \in Tasks : ExecStart(t)
    \/ \E t \in Tasks, r \in Results : AgentReturn(t, r)
    \/ \E t \in Tasks : AgentTimeout(t)
    \/ \E t \in Tasks, e \in Exceptions : AgentRaise(t, e)
    \/ GatherReturn
    \/ Finalize

Spec == Init /\ [][Next]_vars

\* The event loop runs every coroutine that can run, and every agent call
\* ends (it returns, raises, or asyncio.wait_for times it out): once execute
\* has been called, its steps and its tasks' steps are taken.
EngineStep ==
    \/ LoopExit
    \/ LoopBreak
    \/ LoopDispatch
    \/ \E t \in Tasks : ExecStart(t)
    \/ \E t \in Tasks, r \in Results : AgentReturn(t, r)
    \/ \E t \in Tasks : AgentTimeout(t)
    \/ \E t \in Tasks, e \in Exceptions : AgentRaise(t, e)
    \/ GatherReturn
    \/ Finalize

\* The workflows of Init whose tasks all keep the default settings.
ProfileOf(task) ==
    [priority |-> task.priority, agent_id |-> task.agent_id,
     max_retries |-> task.max_retries, requires_approval |-> task.requires_approval]

DefaultSettings == \A t \in Tasks : ProfileOf(tasks[t]) = DefaultProfile

FairInit == Init /\ DefaultSettings

FairSpec == FairInit /\ [][Next]_vars /\ WF_vars(EngineStep)

\* ------------------------------------------- Task, called directly
\* A Task object used on its own, as the unit tests do: the caller builds it
\* with some max_retries and calls its methods in any order.
TheTask == 1

TaskInit ==
    /\ \E m \in 0..DefaultMaxRetries :
          tasks = [t \in Tasks |-> Task(t, {}, "medium", "None", m, FALSE)]
    /\ agents = NoAgents
    /\ wf_status = "pending"
    /\ running_workflows = {}
    /\ completed_task_ids = <<>>
    /\ pending_tasks = <<>>
    /\ ready_tasks = <<>>
    /\ iteration = 0
    /\ pc = "idle"
    /\ tpc = [t \in Tasks |-> "idle"]
    /\ run = "never"
    /\ outcome = [t \in Tasks |-> "none"]
    /\ mark_failed_calls = [t \in Tasks |-> 0]
    /\ agent_result = [t \in Tasks |-> None]
    /\ NoDirectCalls
    /\ NoApprovalRequest

engineState ==
    <<agents, wf_status, running_workflows, completed_task_ids,
      pending_tasks, ready_tasks, iteration, pc, tpc, run, outcome, agent_result>>

engineVars == <<engineState, approvalVars, directVars>>

CallMarkRunning ==
    /\ tasks' = [tasks EXCEPT ![TheTask] = mark_running(@)]
    /\ UNCHANGED <<engineVars, mark_failed_calls>>

CallMarkCompleted(output) ==
    /\ tasks' = [tasks EXCEPT ![TheTask] = mark_completed(@, output)]
    /\ UNCHANGED <<engineVars, mark_failed_calls>>

CallMarkFailed(err) ==
    /\ mark_failed_calls[TheTask] < MaxDirectCalls
    /\ tasks' = [tasks EXCEPT ![TheTask] = mark_failed(@, err)]
    /\ mark_failed_calls' = [mark_failed_calls EXCEPT ![TheTask] = @ + 1]
    /\ UNCHANGED engineVars

TaskNext ==
    \/ CallMarkRunning
    \/ \E r \in Results : CallMarkCompleted(Coerce(r))
    \/ \E e \in Exceptions : CallMarkFailed(ExcMsg(e))

TaskSpec == TaskInit /\ [][TaskNext]_vars

\* ------------------------------------- ApprovalRequest, resolved and awaited
\* One request of the queue: a resolver calls approve and reject at any
\* time and any number of times, and one task awaits wait() once.
workflowVars == <<tasks, mark_failed_calls, engineState, directVars>>
workflowVarsButCall == <<tasks, mark_failed_calls, engineState, registrations, calls>>

ApprovalInit ==
    /\ tasks = NewTasks([deps |-> FanOut, prof |-> [t \in Tasks |-> DefaultProfile]])
    /\ agents = [a \in RegisteredAgents |-> Agent("Worker", a)]
    /\ wf_status = "pending"
    /\ running_workflows = {}
    /\ completed_task_ids = <<>>
    /\ pending_tasks = <<>>
    /\ ready_tasks = <<>>
    /\ iteration = 0
    /\ pc = "idle"
    /\ tpc = [t \in Tasks |-> "idle"]
    /\ run = "never"
    /\ outcome = [t \in Tasks |-> "none"]
    /\ mark_failed_calls = [t \in Tasks |-> 0]
    /\ agent_result = [t \in Tasks |-> None]
    /\ NoDirectCalls
    /\ requests = {}
    /\ req_status = "pending"
    /\ resolved_at = FALSE
    /\ future = PendingFuture
    /\ timer = "none"
    /\ wpc = "idle"
    /\ wait_result = None
    /\ wait_for_impl \in WaitForImpls
    /\ first_call = "none"
    /\ first_call_timer = "none"

\* ApprovalQueue.create_request, and ApprovalRequest.__init__
create_request ==
    /\ requests = {}
    /\ requests' = {tasks[TheTask].task_id}
    /\ req_status' = "pending"
    /\ resolved_at' = FALSE
    /\ future' = PendingFuture
    /\ UNCHANGED <<workflowVars, timer, wpc, wait_result, wait_for_impl,
                   first_call, first_call_timer>>

\* if not self._future.done(): self._future.set_result(result)
set_result_if_not_done(fut, result) ==
    IF fut.state = "pending" THEN [state |-> "done", result |-> result] ELSE fut

\* The first call of approve / reject, remembered.
NoteCall(kind) ==
    IF first_call = "none"
      THEN first_call' = kind /\ first_call_timer' = timer
      ELSE UNCHANGED <<first_call, first_call_timer>>

\* ApprovalRequest.approve
approve(comment) ==
    /\ requests # {}
    /\ req_status' = "approved"
    /\ resolved_at' = TRUE
    /\ future' = set_result_if_not_done(future, Approved(comment))
    /\ NoteCall("approved")
    /\ UNCHANGED <<workflowVars, requests, timer, wpc, wait_result, wait_for_impl>>

\* ApprovalRequest.reject
reject(reason) ==
    /\ requests # {}
    /\ req_status' = "rejected"
    /\ resolved_at' = TRUE
    /\ future' = set_result_if_not_done(future, Rejected(reason))
    /\ NoteCall("rejected")
    /\ UNCHANGED <<workflowVars, requests, timer, wpc, wait_result, wait_for_impl>>

\* wait is called: asyncio.wait_for arms its timeout handle and awaits the
\* future.  asyncio.timeout does not suspend on a future that is done.
WaitCall ==
    /\ requests # {}
    /\ wpc = "idle"
    /\ IF wait_for_impl = "timeout" /\ future.state = "done"
         THEN /\ wpc' = "returned"
              /\ wait_result' = future.result
              /\ timer' = "cancelled"
         ELSE /\ wpc' = "waiting"
              /\ timer' = "armed"
              /\ UNCHANGED wait_result
    /\ UNCHANGED <<workflowVars, requests, req_status, resolved_at, future,
                   wait_for_impl, first_call, first_call_timer>>

\* timeout_seconds elapse: the event loop queues the handle's callback.  A
\* future resolved before that has queued the waiter's wake-up first, and
\* the waiter then cancels the handle.
TimerDue ==
    /\ wpc = "waiting"
    /\ timer = "armed"
    /\ future.state = "pending"
    /\ timer' = "due"
    /\ UNCHANGED <<workflowVars, requests, req_status, resolved_at, future, wpc,
                   wait_result, wait_for_impl, first_call, first_call_timer>>

\* The handle's callback runs: asyncio.timeout cancels the waiting task (and
\* with it a future still pending); the older wait_for releases its waiter.
TimerFire ==
    /\ timer = "due"
    /\ timer' = "fired"
    /\ future' = IF wait_for_impl = "timeout" /\ future.state = "pending"
                   THEN [state |-> "cancelled", result |-> None] ELSE future
    /\ UNCHANGED <<workflowVars, requests, req_status, resolved_at, wpc,
                   wait_result, wait_for_impl, first_call, first_call_timer>>

\* Whether the resumed wait_for raises TimeoutError or returns the result.
WaitForTimesOut ==
    IF wait_for_impl = "timeout" THEN timer = "fired" ELSE future.state # "done"

\* except asyncio.TimeoutError that lets the error out of wait.
TimeoutErrorPropagates == [status |-> req_status, result |-> None, wpc |-> "raised"]

\* except asyncio.TimeoutError: status EXPIRED, return {"status": "expired"}
OnTimeoutError == [status |-> "expired", result |-> Expired, wpc |-> "returned"]

\* The waiter resumes and wait_for returns the future's result.
WaitReturn ==
    /\ wpc = "waiting"
    /\ timer # "due"
    /\ future.state # "pending" \/ timer = "fired"
    /\ ~WaitForTimesOut
    /\ wpc' = "returned"
    /\ wait_result' = future.result
    /\ timer' = IF timer = "armed" THEN "cancelled" ELSE timer
    /\ UNCHANGED <<workflowVars, requests, req_status, resolved_at, future,
                   wait_for_impl, first_call, first_call_timer>>

\* The older wait_for resumes after the timeout with the future pending: it
\* cancels the future and suspends once more until the cancellation is done.
WaitCancelAndWait ==
    /\ wpc = "waiting"
    /\ wait_for_impl = "waiter"
    /\ timer = "fired"
    /\ future.state = "pending"
    /\ future' = [state |-> "cancelled", result |-> None]
    /\ wpc' = "cancelling"
    /\ UNCHANGED <<workflowVars, requests, req_status, resolved_at, timer,
                   wait_result, wait_for_impl, first_call, first_call_timer>>

\* wait_for raises TimeoutError into wait, whose except clause handles it.
WaitTimeout ==
    /\ \/ wpc = "cancelling"
       \/ wpc = "waiting" /\ wait_for_impl = "timeout" /\ timer = "fired"
    /\ req_status' = OnTimeoutError.status
    /\ wait_result' = OnTimeoutError.result
    /\ wpc' = OnTimeoutError.wpc
    /\ UNCHANGED <<workflowVars, requests, resolved_at, future, timer,
                   wait_for_impl, first_call, first_call_timer>>

ApprovalNext ==
    \/ create_request
    \/ \E c \in Comments : approve(c)
    \/ \E r \in Comments : reject(r)
    \/ WaitCall
    \/ TimerDue
    \/ TimerFire
    \/ WaitReturn
    \/ WaitCancelAndWait
    \/ WaitTimeout

ApprovalSpec == ApprovalInit /\ [][ApprovalNext]_vars

\* ------------------------------------------- register_agent, list_agents
\* A workflow that has not been executed, and the engine's other fields as
\* constructed.
EngineIdle ==
    /\ tasks = NewTasks([deps |-> FanOut, prof |-> [t \in Tasks |-> DefaultProfile]])
    /\ wf_status = "pending"
    /\ running_workflows = {}
    /\ completed_task_ids = <<>>
    /\ pending_tasks = <<>>
    /\ ready_tasks = <<>>
    /\ iteration = 0
    /\ pc = "idle"
    /\ tpc = [t \in Tasks |-> "idle"]
    /\ run = "never"
    /\ outcome = [t \in Tasks |-> "none"]
    /\ mark_failed_calls = [t \in Tasks |-> 0]
    /\ agent_result = [t \in Tasks |-> None]

\* The agents a caller may register: two ids, two agents for each.
AgentObjects == {Agent(n, a) : n \in {"Worker", "Other"}, a \in {"a1", "a2"}}

\* WorkflowEngine(): no agent registered.
RegistryInit ==
    /\ EngineIdle
    /\ agents = NoAgents
    /\ NoApprovalRequest
    /\ NoDirectCalls

\* A registry that keeps the agent first registered for an id.
register_agent_keep_first(agent) ==
    [a \in DOMAIN agents \cup {agent.agent_id} |->
        IF a \in DOMAIN agents THEN agents[a] ELSE agent]

\* self._agents[agent.agent_id] = agent
register_agent(agent) ==
    [a \in DOMAIN agents \cup {agent.agent_id} |->
        IF a = agent.agent_id THEN agent ELSE agents[a]]

\* Agent.to_dict, the fields modelled.
AgentToDict(agent) == [agent_id |-> agent.agent_id, name |-> agent.name]

\* list_agents: one dict per value of the registry (their order left out).
list_agents == {AgentToDict(agents[a]) : a \in DOMAIN agents}

RegisterAgent(agent) ==
    /\ Len(registrations) < MaxRegistrations
    /\ agents' = register_agent(agent)
    /\ registrations' = Append(registrations, agent)
    /\ UNCHANGED <<tasks, wf_status, running_workflows, completed_task_ids,
                   pending_tasks, ready_tasks, iteration, pc, tpc, run, outcome,
                   mark_failed_calls, agent_result, approvalVars, call, calls>>

RegistryNext == \E agent \in AgentObjects : RegisterAgent(agent)

RegistrySpec == RegistryInit /\ [][RegistryNext]_vars

\* ------------------------------------------------ Task.is_ready, called directly
\* The id lists a caller may pass: any ids, in any order, repeated or not.
IdLists == UNION {[1..n -> Tasks] : n \in 0..MaxListLen}

\* A task with any dependencies and any list of ids, is_ready not yet called.
ReadyInit ==
    /\ EngineIdle
    /\ agents = NoAgents
    /\ NoApprovalRequest
    /\ registrations = <<>>
    /\ calls = <<>>
    /\ \E deps \in SUBSET Tasks, ids \in IdLists :
          call = [op |-> "is_ready",
                  task |-> Task(TheTask, deps, "medium", "None", DefaultMaxRetries, FALSE),
                  ids |-> ids, done |-> FALSE, ret |-> FALSE]

CallIsReady ==
    /\ call.op = "is_ready" /\ ~call.done
    /\ call' = [call EXCEPT !.done = TRUE, !.ret = is_ready(call.task, call.ids)]
    /\ UNCHANGED <<workflowVarsButCall, approvalVars>>

ReadyNext == CallIsReady

ReadySpec == ReadyInit /\ [][ReadyNext]_vars

\* ----------------------------------------- Workflow.to_dict / from_dict
WorkflowStatuses == {"pending", "running", "paused", "completed", "failed", "cancelled"}

\* Workflow(...): the dataclass; fields not given take their defaults.
Workflow(name, description, workflow_id, metadata, max_retries, timeout_seconds) ==
    [name |-> name, description |-> description, workflow_id |-> workflow_id,
     tasks |-> <<>>, agents |-> <<>>, metadata |-> metadata, status |-> "pending",
     max_retries |-> max_retries, timeout_seconds |-> timeout_seconds]

\* The workflows serialized: built by a caller, tasks added, in any status.
WorkflowObjects ==
    {[Workflow(n, d, WorkflowId, md, r, s) EXCEPT !.tasks = ts, !.status = st] :
        n \in {"WF", "Test"}, d \in {"", "d"}, md \in {<<>>, <<"k", "v">>},
        r \in {DefaultMaxRetries, 0}, s \in {300, 1},
        ts \in {<<>>, <<"T1">>}, st \in WorkflowStatuses}

\* Workflow.to_dict
to_dict(w) ==
    [workflow_id |-> w.workflow_id, name |-> w.name, description |-> w.description,
     status |-> w.status, tasks_count |-> Len(w.tasks), agents_count |-> Len(w.agents),
     metadata |-> w.metadata, max_retries |-> w.max_retries,
     timeout_seconds |-> w.timeout_seconds]

\* Workflow.from_dict
from_dict(data) ==
    Workflow(data.name, data.description, data.workflow_id, data.metadata,
             data.max_retries, data.timeout_seconds)

SerialInit ==
    /\ EngineIdle
    /\ agents = NoAgents
    /\ NoApprovalRequest
    /\ registrations = <<>>
    /\ calls = <<>>
    /\ \E w \in WorkflowObjects :
          call = [op |-> "Workflow", w |-> w, data |-> <<>>, back |-> <<>>]

\* data = w.to_dict()
CallToDict ==
    /\ call.op = "Workflow"
    /\ call' = [call EXCEPT !.op = "to_dict", !.data = to_dict(call.w)]
    /\ UNCHANGED <<workflowVarsButCall, approvalVars>>

\* back = Workflow.from_dict(data)
CallFromDict ==
    /\ call.op = "to_dict"
    /\ call' = [call EXCEPT !.op = "from_dict", !.back = from_dict(call.data)]
    /\ UNCHANGED <<workflowVarsButCall, approvalVars>>

SerialNext == CallToDict \/ CallFromDict

SerialSpec == SerialInit /\ [][SerialNext]_vars

\* --------------------------------- execute calls overlapping on one engine
\* Two workflows are executed on the same WorkflowEngine, each once, the
\* calls started at any time.  The event loop runs a coroutine from one
\* await to the next without interruption, so a step here is such a block:
\* execute up to its first gather, a task's coroutine up to its wait_for,
\* a task's coroutine from the agent's result to its end, and execute from
\* the return of a gather to the next gather or to its return.  Every agent
\* is registered and returns a result in time.
OverlappingWorkflows == {"w1", "w2"}

\* What every agent returns here: the string "s".
OverlapResult == [kind |-> "str", ref |-> <<"s">>]

\* task_id is a fresh uuid: no two tasks share one, across workflows too.
TaskIdOf(w, t) == IF w = "w1" THEN t ELSE NumTasks + t

\* Each workflow: every task free to run but the last, which depends on the
\* first.
LastDependsOnFirst(w) ==
    [t \in Tasks |-> IF t = NumTasks THEN {TaskIdOf(w, 1)} ELSE {}]

OverlapTasks(w) ==
    [t \in Tasks |-> Task(TaskIdOf(w, t), LastDependsOnFirst(w)[t], "medium", "a1",
                          DefaultMaxRetries, FALSE)]

OverlapInit ==
    /\ EngineIdle
    /\ agents = [a \in RegisteredAgents |-> Agent("Worker", a)]
    /\ NoApprovalRequest
    /\ registrations = <<>>
    /\ call = NoCall
    /\ calls = [w \in OverlappingWorkflows |->
                  [status |-> "pending", tasks |-> OverlapTasks(w), pc |-> "idle",
                   pending_tasks |-> <<>>, ready_tasks |-> <<>>, iteration |-> 0,
                   tpc |-> [t \in Tasks |-> "idle"]]]

\* Lines 66-72 and the return: the final status of the call's workflow.
OverlapFinal(c) ==
    [c EXCEPT !.status = IF \E t \in Tasks : c.tasks[t].status = "failed"
                           THEN "failed" ELSE "completed",
              !.pc = "done"]

\* The ready_tasks comprehension, over the engine's one _completed_task_ids.
OverlapReady(c, ids) ==
    SelectSeq(c.pending_tasks,
              LAMBDA t : is_ready(c.tasks[t], ids) /\ c.tasks[t].status = "pending")

\* The while loop from its test to the next await, or to execute's return.
OverlapLoop(c, ids) ==
    IF ~(c.pending_tasks # <<>> /\ c.iteration < max_iterations)
      THEN OverlapFinal(c)
      ELSE IF OverlapReady(c, ids) = <<>>
             THEN OverlapFinal([c EXCEPT !.iteration = @ + 1])
             ELSE [c EXCEPT !.iteration = @ + 1,
                            !.ready_tasks = OverlapReady(c, ids),
                            !.tpc = [t \in Tasks |->
                                        IF t \in Range(OverlapReady(c, ids))
                                          THEN "start" ELSE c.tpc[t]],
                            !.pc = "gather"]

\* The finally clause pops the workflow; until then it is in the table.
OverlapTable(w, c) ==
    IF c.pc = "done" THEN running_workflows \ {w} ELSE running_workflows \cup {w}

overlapFrame == <<tasks, agents, wf_status, pending_tasks, ready_tasks, iteration, pc,
                  tpc, run, outcome, mark_failed_calls, agent_result, approvalVars,
                  registrations, call>>

\* execute(workflow) is called and runs to its first gather.
OverlapExecute(w) ==
    /\ calls[w].pc = "idle"
    /\ LET c == OverlapLoop([calls[w] EXCEPT !.status = "running",
                                              !.pending_tasks = WorkflowTasks,
                                              !.iteration = 0], <<>>)
       IN  /\ calls' = [calls EXCEPT ![w] = c]
           /\ running_workflows' = OverlapTable(w, c)
    /\ completed_task_ids' = <<>>
    /\ UNCHANGED overlapFrame

\* _execute_task up to its await.
OverlapExecStart(w, t) ==
    /\ calls[w].pc = "gather"
    /\ calls[w].tpc[t] = "start"
    /\ \E i \in DOMAIN calls[w].ready_tasks :
          /\ calls[w].ready_tasks[i] = t
          /\ \A j \in 1..(i - 1) : calls[w].tpc[calls[w].ready_tasks[j]] # "start"
    /\ IF calls[w].tasks[t].agent_id \in DOMAIN agents
         THEN calls' = [calls EXCEPT ![w].tasks[t] = mark_running(@),
                                     ![w].tpc[t] = "await"]
         ELSE calls' = [calls EXCEPT ![w].tasks[t] =
                                         mark_failed(mark_running(@), NoAgentMsg(@.agent_id)),
                                     ![w].tpc[t] = "done"]
    /\ UNCHANGED <<overlapFrame, running_workflows, completed_task_ids>>

\* The agent returns: mark_completed and the append to the engine's list.
OverlapAgentReturn(w, t) ==
    /\ calls[w].pc = "gather"
    /\ calls[w].tpc[t] = "await"
    /\ calls' = [calls EXCEPT ![w].tasks[t] = mark_completed(@, Coerce(OverlapResult)),
                              ![w].tpc[t] = "done"]
    /\ completed_task_ids' = Append(completed_task_ids, calls[w].tasks[t].task_id)
    /\ UNCHANGED <<overlapFrame, running_workflows>>

\* gather returns: the pending filter, then the loop to its next await.
OverlapGatherReturn(w) ==
    /\ calls[w].pc = "gather"
    /\ \A t \in Range(calls[w].ready_tasks) : calls[w].tpc[t] = "done"
    /\ LET filtered ==
              [calls[w] EXCEPT
                 !.pending_tasks =
                     SelectSeq(@, LAMBDA t : calls[w].tasks[t].status = "pending"),
                 !.tpc = [t \in Tasks |-> "idle"]]
           c == OverlapLoop(filtered, completed_task_ids)
       IN  /\ calls' = [calls EXCEPT ![w] = c]
           /\ running_workflows' = OverlapTable(w, c)
    /\ UNCHANGED <<overlapFrame, completed_task_ids>>

OverlapNext ==
    \/ \E w \in OverlappingWorkflows : OverlapExecute(w)
    \/ \E w \in OverlappingWorkflows, t \in Tasks : OverlapExecStart(w, t)
    \/ \E w \in OverlappingWorkflows, t \in Tasks : OverlapAgentReturn(w, t)
    \/ \E w \in OverlappingWorkflows : OverlapGatherReturn(w)

OverlapSpec == OverlapInit /\ [][OverlapNext]_vars

\* ------------------------------------------- execute, when the loop raises
\* The body of the while loop may raise an Exception of its own (a task
\* object whose is_ready raises, for instance one built with
\* dependencies=None): `except Exception` of execute marks the workflow
\* failed, the finally clause pops it, and execute returns.

\* The except clause without the finally clause.
LoopRaiseNoFinally ==
    /\ pc = "loop"
    /\ pending_tasks # <<>> /\ iteration < max_iterations
    /\ iteration' = iteration + 1
    /\ wf_status' = "failed"
    /\ pc' = "done"
    /\ UNCHANGED <<tasks, agents, running_workflows, completed_task_ids, pending_tasks,
                   ready_tasks, tpc, run, outcome, mark_failed_calls, agent_result,
                   approvalVars, directVars>>

LoopRaise ==
    /\ pc = "loop"
    /\ pending_tasks # <<>> /\ iteration < max_iterations
    /\ iteration' = iteration + 1
    /\ wf_status' = "failed"
    /\ running_workflows' = running_workflows \ {WorkflowId}
    /\ pc' = "done"
    /\ UNCHANGED <<tasks, agents, completed_task_ids, pending_tasks, ready_tasks,
                   tpc, run, outcome, mark_failed_calls, agent_result,
                   approvalVars, directVars>>

\* get_workflow_status(workflow_id), None written as a status of its own.
get_workflow_status ==
    IF WorkflowId \in running_workflows THEN wf_status ELSE "None"

CrashNext == Next \/ LoopRaise

CrashSpec == Init /\ [][CrashNext]_vars

\* ------------------------------------------------------------- the claims
Dependencies(t) == tasks[t].dependencies
Status(t) == tasks[t].status

\* C1: a task is handed to _execute_task (and so marked running, and its
\* agent invoked) only when every task it depends on is completed and was
\* recorded as completed during this call of execute.
C1_DependenciesCompletedFirst ==
    \A t \in Tasks :
        tpc[t] # "idle" =>
            \A d \in Dependencies(t) :
                Status(d) = "completed" /\ d \in Range(completed_task_ids)

C1_Witness ==
    \E t \in Tasks :
        /\ Cardinality(Dependencies(t)) = 2
        /\ tpc[t] = "await"
        /\ Status(t) = "running"

\* C2: when execute has returned, the workflow is failed if some task is
\* failed, and completed if every task is completed.
C2_FinalStatus ==
    pc = "done" =>
        /\ (\E t \in Tasks : Status(t) = "failed") => wf_status = "failed"
        /\ (\A t \in Tasks : Status(t) = "completed") => wf_status = "completed"

C2_Witness ==
    /\ pc = "done"
    /\ wf_status = "failed"
    /\ \E t, u \in Tasks : Status(t) = "failed" /\ Status(u) = "completed"


\* The dependency graph has no cycle: no non-empty set of tasks in which
\* every task depends on a task of the set.
Acyclic ==
    \A S \in SUBSET Tasks :
        S = {} \/ \E t \in S : Dependencies(t) \cap S = {}

InExecute == pc \in {"loop", "gather", "final"}

\* C3 as stated: at the return of the first execute of an acyclic workflow
\* every task is completed, failed or skipped.
C3_AllTerminalAtReturn ==
    (pc = "done" /\ run = "first" /\ Acyclic) =>
        \A t \in Tasks : Status(t) \in {"completed", "failed", "skipped"}

\* C3 as amended: execute terminates, and at the return of the first
\* execute of an acyclic workflow no task is running: every task is
\* completed or failed, or is still pending and then has a dependency that
\* is failed or itself still pending.
C3_TerminatesNoneRunning ==
    /\ [](( pc = "done" /\ run = "first" /\ Acyclic) =>
            \A t \in Tasks :
                \/ Status(t) \in {"completed", "failed"}
                \/ /\ Status(t) = "pending"
                   /\ \E d \in Dependencies(t) : Status(d) \in {"failed", "pending"})
    /\ (InExecute ~> pc = "done")

C3_Witness ==
    /\ pc = "done" /\ run = "first" /\ Acyclic
    /\ \E t, d \in Tasks :
          /\ d \in Dependencies(t)
          /\ Status(d) = "failed"
          /\ Status(t) = "pending"
    /\ \E u \in Tasks : Status(u) = "completed"

\* C4 as stated: when the loop was left with the ready set empty while
\* tasks are still pending, the workflow ends failed (and those tasks were
\* never handed to an agent).
C4_StallEndsFailed ==
    (pc = "done" /\ pending_tasks # <<>> /\ \E t \in Tasks : Status(t) = "pending") =>
        /\ wf_status = "failed"
        /\ \A t \in Tasks : Status(t) = "pending" => outcome[t] = "none"

\* C5 as stated: between rounds, a task whose last attempt failed and that
\* can still be retried is pending again and still in the pending list.
AttemptFailed(t) == outcome[t] \in {"raised", "timeout", "no agent"}

C5_RetryableGoesBackToPending ==
    \A t \in Tasks :
        (pc = "loop" /\ AttemptFailed(t) /\ can_retry(tasks[t])) =>
            Status(t) = "pending" /\ t \in Range(pending_tasks)

\* C6: once a task is completed or failed (so also once it has failed
\* max_retries times), no step of this or a later execute changes its
\* status or hands it to _execute_task again.
C6_NeverDispatchedAgain ==
    [][\A t \in Tasks :
          Status(t) \in {"completed", "failed"} =>
              /\ tasks'[t].status = Status(t)
              /\ tpc'[t] \in {tpc[t], "idle"}
              /\ outcome'[t] = outcome[t]]_vars

C6_Witness ==
    /\ pc = "done" /\ run = "later"
    /\ \E t, u \in Tasks :
          /\ Status(t) = "failed"
          /\ tasks[t].retry_count = tasks[t].max_retries
          /\ Status(u) = "completed"

\* C7: after any number of mark_failed calls on a fresh Task, can_retry()
\* is true exactly when fewer than max_retries calls were made, retry_count
\* being the number of calls.
C7_CanRetryIffBelowMax ==
    /\ tasks[TheTask].retry_count = mark_failed_calls[TheTask]
    /\ can_retry(tasks[TheTask]) <=>
          (mark_failed_calls[TheTask] < tasks[TheTask].max_retries)

C7_Witness ==
    /\ tasks[TheTask].max_retries = 2
    /\ mark_failed_calls[TheTask] = 2
    /\ ~can_retry(tasks[TheTask])

\* C8: whenever execute is about to compute a ready set, every coroutine of
\* the previous round has finished: no task is running.
C8_RoundSettledBeforeNext ==
    pc = "loop" =>
        \A t \in Tasks : Status(t) # "running" /\ tpc[t] = "idle"

C8_Witness ==
    /\ pc = "loop" /\ iteration = 1
    /\ \E t, u \in Tasks :
          /\ outcome[t] = "timeout" /\ Status(t) = "failed"
          /\ outcome[u] = "returned" /\ Status(u) = "completed"

\* C9: a round hands to gather every task that is pending with all its
\* dependencies completed when the round starts, whatever its priority
\* (so, with T2 and T3 depending on T1, both in the round after T1
\* completes), and the workflow ends completed when every task succeeds.
ReadyAtRoundStart(t) ==
    Status(t) = "pending" /\ \A d \in Dependencies(t) : Status(d) = "completed"

C9_AllReadyDispatchedTogether ==
    /\ [][(pc = "loop" /\ pc' # "loop") =>
            \A t \in Tasks : ReadyAtRoundStart(t) => tpc'[t] = "start"]_vars
    /\ []((pc = "done" /\ \A t \in Tasks : outcome[t] = "returned") =>
            (wf_status = "completed" /\ \A t \in Tasks : Status(t) = "completed"))

\* T1 is completed and T2 and T3, of different priorities, are both running.
C9_Witness ==
    /\ Dependencies(1) = {} /\ Dependencies(2) = {1} /\ Dependencies(3) = {1}
    /\ Status(1) = "completed"
    /\ tasks[2].priority = "low" /\ tasks[3].priority = "critical"
    /\ tpc[2] = "await" /\ tpc[3] = "await"
    /\ Status(2) = "running" /\ Status(3) = "running"

\* C10: a timeout fails its own task with the timeout message and touches
\* no other task or coroutine; each task's final state is decided by its
\* own agent call alone; and execute goes on to its end.
TimesOut(t) == tpc[t] = "await" /\ outcome[t] # "timeout" /\ outcome'[t] = "timeout"

C10_TimeoutFailsOnlyItsTask ==
    /\ [][\A t \in Tasks :
            TimesOut(t) =>
                /\ tasks'[t].status = "failed"
                /\ tasks'[t].error = TimeoutMsg(t)
                /\ \A u \in Tasks \ {t} : tasks'[u] = tasks[u] /\ tpc'[u] = tpc[u]
                /\ pc' = pc]_vars
    /\ [](pc \in {"loop", "final", "done"} =>
            \A t \in Tasks :
                /\ outcome[t] = "timeout" =>
                      Status(t) = "failed" /\ tasks[t].error = TimeoutMsg(t)
                /\ outcome[t] = "returned" => Status(t) = "completed"
                /\ outcome[t] = "raised" =>
                      Status(t) = "failed" /\ tasks[t].error \in {ExcMsg(e) : e \in Exceptions})
    /\ ((\E t \in Tasks : outcome[t] = "timeout") ~> pc = "done")

\* T1 timed out while T2, of the same round, completed; T3, which depends
\* on T2, ran in the next round, and execute returned.
C10_Witness ==
    /\ pc = "done" /\ wf_status = "failed"
    /\ Dependencies(1) = {} /\ Dependencies(2) = {} /\ Dependencies(3) = {2}
    /\ outcome[1] = "timeout" /\ Status(1) = "failed"
    /\ outcome[2] = "returned" /\ Status(2) = "completed"
    /\ Status(3) = "completed" /\ iteration = 2

\* C11: when the agent of a dispatched task raises or does not answer in
\* time, that step leaves the task failed, its error the text of the
\* failure, its retry_count one higher, and execute where it was (it goes
\* on to gather the round); a task whose last attempt failed that way is
\* failed when execute has returned, and execute has returned with a final
\* workflow status.
AgentFails(t) ==
    tpc[t] = "await" /\ tpc'[t] = "done" /\ outcome'[t] \in {"raised", "timeout"}

FailureText(t, how) ==
    IF how = "timeout"
      THEN {[kind |-> "timed out", ref |-> <<TaskName(t)>>]}
      ELSE {[kind |-> "exception", ref |-> <<e>>] : e \in Exceptions}

C11_FailureIsRecorded ==
    /\ [][\A t \in Tasks :
            AgentFails(t) =>
                /\ tasks'[t].status = "failed"
                /\ tasks'[t].error \in FailureText(t, outcome'[t])
                /\ tasks'[t].retry_count = tasks[t].retry_count + 1
                /\ pc' = pc /\ wf_status' = wf_status]_vars
    /\ [](pc = "done" =>
            /\ wf_status \in {"completed", "failed"}
            /\ \A t \in Tasks :
                  outcome[t] \in {"raised", "timeout"} =>
                      /\ Status(t) = "failed"
                      /\ tasks[t].retry_count = 1
                      /\ wf_status = "failed")

C11_Witness ==
    /\ pc = "done" /\ wf_status = "failed"
    /\ outcome[1] = "returned" /\ outcome[2] = "raised" /\ outcome[3] = "timeout"
    /\ tasks[2].error = ExcMsg("boom") /\ tasks[2].retry_count = 1
    /\ tasks[3].error = TimeoutMsg(3) /\ tasks[3].retry_count = 1

\* C12: a dispatched task whose agent_id is not in the registry (None
\* included) never reaches the await of an agent and no agent outcome is
\* recorded for it; once its coroutine is done it is failed with the error
\* that names the missing id, while execute is still gathering the round.
Unregistered(t) == tasks[t].agent_id \notin DOMAIN agents

C12_MissingAgentFailsTask ==
    \A t \in Tasks :
        Unregistered(t) =>
            /\ tpc[t] # "await"
            /\ outcome[t] \in {"none", "no agent"}
            /\ agent_result[t] = None
            /\ tpc[t] = "done" =>
                  /\ pc = "gather"
                  /\ Status(t) = "failed"
                  /\ tasks[t].error =
                        [kind |-> "No agent found with id", ref |-> <<tasks[t].agent_id>>]
            /\ Status(t) \in {"pending", "failed"}

C12_Witness ==
    /\ pc = "done" /\ wf_status = "failed"
    /\ tasks[2].agent_id = "None" /\ tasks[3].agent_id = "a2"
    /\ Status(1) = "completed"
    /\ Status(2) = "failed" /\ tasks[2].error = NoAgentMsg("None")
    /\ Status(3) = "failed" /\ tasks[3].error = NoAgentMsg("a2")

\* C13: the agent of a task with requires_approval is awaited only when an
\* approval request for that task exists and has been approved.
C13_ApprovalBeforeAgent ==
    \A t \in Tasks :
        tasks[t].requires_approval /\ tpc[t] = "await" =>
            tasks[t].task_id \in requests /\ req_status = "approved"

\* C14: once the status of a request is approved or rejected, a later call
\* of approve or reject leaves it as it is.
C14_FirstCallerWins ==
    [][(req_status \in {"approved", "rejected"} /\ req_status' \in {"approved", "rejected"})
          => req_status' = req_status]_vars

\* C15: a request that expired is never turned into approved or rejected,
\* and a request that was approved or rejected is never turned into expired.
C15_ResolvedOnce ==
    [][(req_status = "expired" => req_status' = "expired")
       /\ (req_status \in {"approved", "rejected"} => req_status' # "expired")]_vars

C17_CompletedHasOutputNoError ==
    \A t \in Tasks :
        Status(t) = "completed" =>
            tasks[t].output_data # None /\ tasks[t].error = None

C17_Witness ==
    /\ pc = "done" /\ run = "later"
    /\ Status(1) = "completed" /\ tasks[1].output_data # None
    /\ Status(2) = "failed" /\ tasks[2].error # None
    /\ Status(3) = "completed"

\* C18: the output_data of a completed task is a mapping: the agent's
\* result itself when that is a mapping, {"result": result} otherwise; and
\* output_data is written only by the step in which the agent returns, to a
\* task whose output_data was None.
C18_OutputIsCoercedResult ==
    /\ [](\A t \in Tasks :
            Status(t) = "completed" =>
                /\ tasks[t].output_data.kind = "dict"
                /\ agent_result[t].kind = "dict" =>
                      tasks[t].output_data = agent_result[t]
                /\ agent_result[t].kind # "dict" =>
                      tasks[t].output_data.ref = <<"result">> \o agent_result[t].ref)
    /\ [][\A t \in Tasks :
            tasks'[t].output_data # tasks[t].output_data =>
                /\ tasks[t].output_data = None
                /\ tpc[t] = "await" /\ outcome'[t] = "returned"
                /\ tasks'[t].status = "completed"]_vars

C18_Witness ==
    /\ pc = "done"
    /\ agent_result[1].kind = "dict" /\ tasks[1].output_data = agent_result[1]
    /\ agent_result[2].kind = "str"
    /\ tasks[2].output_data = [kind |-> "dict", ref |-> <<"result", "s">>]

\* C19: every step changes the status of a task only along the state
\* machine: pending to running, running to completed or failed (a missing
\* agent takes pending through running to failed in one step of the
\* coroutine), pending to waiting_approval to running or failed, failed to
\* pending while a retry is left; no task is ever skipped, and a completed
\* task keeps its status.
LegalStatusChange(t) ==
    LET old == tasks[t].status
        new == tasks'[t].status
    IN  \/ new = old
        \/ old = "pending" /\ new \in {"running", "waiting_approval"}
        \/ old = "pending" /\ new = "failed" /\ outcome'[t] = "no agent"
        \/ old = "waiting_approval" /\ new \in {"running", "failed"}
        \/ old = "running" /\ new \in {"completed", "failed"}
        \/ old = "failed" /\ new = "pending" /\ tasks[t].retry_count < tasks[t].max_retries

C19_StatusFollowsStateMachine ==
    /\ [][\A t \in Tasks : LegalStatusChange(t)]_vars
    /\ [](\A t \in Tasks : Status(t) # "skipped")

C19_Witness ==
    /\ pc = "done" /\ run = "later"
    /\ Status(1) = "completed"
    /\ Status(2) = "failed" /\ outcome[2] = "no agent"
    /\ Status(3) = "failed" /\ outcome[3] = "raised"

\* C20: workflow.status is pending until execute is first called, running
\* from the start of every execute to its final statement (so whenever a
\* task's coroutine exists), and completed or failed whenever execute has
\* returned; it is never cancelled or paused.
C20_WorkflowStatusLifecycle ==
    /\ pc = "idle" => wf_status = "pending"
    /\ InExecute => wf_status = "running"
    /\ (\E t \in Tasks : tpc[t] # "idle") => wf_status = "running" /\ pc = "gather"
    /\ pc = "done" => wf_status \in {"completed", "failed"}
    /\ wf_status \notin {"cancelled", "paused"}

C20_Witness ==
    /\ pc = "gather" /\ wf_status = "running" /\ iteration = 2
    /\ Status(1) = "completed"
    /\ \E t \in Tasks : tpc[t] = "await"

\* C21: after any sequence of register_agent calls the registry has one
\* entry per agent_id registered, each the agent of the latest call for its
\* id, and list_agents has as many items; a call that registers again the
\* agent of the call before it leaves the registry as it was.
RegisteredIds == {registrations[i].agent_id : i \in DOMAIN registrations}

LatestFor(a) ==
    LET last == CHOOSE i \in DOMAIN registrations :
                   /\ registrations[i].agent_id = a
                   /\ \A j \in DOMAIN registrations :
                         registrations[j].agent_id = a => j <= i
    IN  registrations[last]

C21_RegistryIsLatestById ==
    /\ [](/\ DOMAIN agents = RegisteredIds
          /\ \A a \in RegisteredIds : agents[a] = LatestFor(a)
          /\ Cardinality(list_agents) = Cardinality(RegisteredIds))
    /\ [][\A g \in AgentObjects :
            (/\ registrations # <<>>
             /\ registrations[Len(registrations)] = g
             /\ registrations' = Append(registrations, g)) => agents' = agents]_vars

C21_Witness ==
    /\ Len(registrations) = 4
    /\ registrations[1] = Agent("Worker", "a1")
    /\ registrations[2] = Agent("Other", "a1")
    /\ registrations[3] = Agent("Other", "a1")
    /\ registrations[4] = Agent("Worker", "a2")
    /\ agents["a1"] = Agent("Other", "a1")
    /\ Cardinality(list_agents) = 2

\* C22: is_ready(ids) is true exactly when every dependency of the task is
\* an element of ids; so with no dependencies it is true for every ids, and
\* with a dependency missing from ids it is false.
C22_ReadyIffAllDependenciesListed ==
    call.op = "is_ready" /\ call.done =>
        /\ call.ret <=> \A d \in call.task.dependencies :
                           \E i \in DOMAIN call.ids : call.ids[i] = d
        /\ call.task.dependencies = {} => call.ret
        /\ (\E d \in call.task.dependencies :
               \A i \in DOMAIN call.ids : call.ids[i] # d) => ~call.ret

C22_Witness ==
    /\ call.op = "is_ready" /\ call.done
    /\ call.task.dependencies = {1, 2} /\ call.ids = <<2, 2, 3>>
    /\ ~call.ret

\* C24: from_dict(w.to_dict()) has the workflow_id, name, description,
\* status, metadata, max_retries and timeout_seconds of w.
C24_RoundTrip ==
    call.op = "from_dict" =>
        /\ call.back.workflow_id = call.w.workflow_id
        /\ call.back.name = call.w.name
        /\ call.back.description = call.w.description
        /\ call.back.status = call.w.status
        /\ call.back.metadata = call.w.metadata
        /\ call.back.max_retries = call.w.max_retries
        /\ call.back.timeout_seconds = call.w.timeout_seconds

\* C23: no step of an execution changes the agent registry, nor a task's
\* task_id, name, agent_id, input_data, dependencies, priority,
\* requires_approval, max_retries or timeout_seconds.
FrameFields(task) ==
    [task_id |-> task.task_id, name |-> task.name, agent_id |-> task.agent_id,
     input_data |-> task.input_data, dependencies |-> task.dependencies,
     priority |-> task.priority, requires_approval |-> task.requires_approval,
     max_retries |-> task.max_retries, timeout_seconds |-> task.timeout_seconds]

C23_ExecuteFrame ==
    [][/\ agents' = agents
       /\ \A t \in Tasks : FrameFields(tasks'[t]) = FrameFields(tasks[t])]_vars

C23_Witness ==
    /\ pc = "done" /\ wf_status = "failed"
    /\ DOMAIN agents = RegisteredAgents
    /\ Status(1) = "completed" /\ tasks[1].output_data # None
    /\ Status(2) = "completed" /\ Dependencies(2) = {1}
    /\ Status(3) = "failed" /\ tasks[3].retry_count = 1 /\ tasks[3].max_retries = 1

\* C25: with every agent returning, a workflow executed alone ends
\* completed with all its tasks completed; so does each of two workflows
\* whose execute calls overlap on one engine.
C25_OverlappingCallsAsAlone ==
    \A w \in OverlappingWorkflows :
        calls[w].pc = "done" =>
            /\ calls[w].status = "completed"
            /\ \A t \in Tasks : calls[w].tasks[t].status = "completed"

\* C26: in the first execute of a workflow (all its tasks pending before),
\* whenever the loop is at its test the completed-id list holds exactly the
\* ids of the completed tasks, none twice; the id of a failed task is never
\* in it; and every step of that execute leaves it as it was or longer.
IsPrefix(s, u) == Len(s) <= Len(u) /\ \A i \in DOMAIN s : u[i] = s[i]

C26_CompletedIdsAreCompletedTasks ==
    /\ [](run = "first" =>
            /\ pc = "loop" =>
                  /\ Range(completed_task_ids) =
                        {tasks[t].task_id : t \in {u \in Tasks : Status(u) = "completed"}}
                  /\ \A i, j \in DOMAIN completed_task_ids :
                        completed_task_ids[i] = completed_task_ids[j] => i = j
            /\ \A t \in Tasks :
                  Status(t) = "failed" => tasks[t].task_id \notin Range(completed_task_ids))
    /\ [][run = "first" /\ run' = "first" =>
             IsPrefix(completed_task_ids, completed_task_ids')]_vars

C26_Witness ==
    /\ run = "first" /\ pc = "loop" /\ iteration = 1
    /\ completed_task_ids = <<2, 1>>
    /\ outcome[3] = "timeout" /\ Status(3) = "failed"

\* C27: the return of a gather leaves the pending list shorter than it
\* was; a gather is never begun in an iteration beyond the number of tasks;
\* and the loop's test never fails with tasks still pending.
C27_PendingShrinksEachRound ==
    /\ [][pc = "gather" /\ pc' = "loop" => Len(pending_tasks') < Len(pending_tasks)]_vars
    /\ [](pc = "gather" => iteration <= Len(WorkflowTasks))
    /\ [](pc = "loop" /\ pending_tasks # <<>> => iteration < max_iterations)

C27_Witness ==
    /\ pc = "gather" /\ iteration = Len(WorkflowTasks)
    /\ Len(pending_tasks) = 1

\* C28: when execute has returned, a task that depends, directly or through
\* other tasks, on a failed task is pending, with retry_count 0, no error
\* and no output, and no agent was ever invoked for it.
RECURSIVE DependenciesWithin(_, _)
DependenciesWithin(S, n) ==
    IF n = 0 THEN S
    ELSE DependenciesWithin(S \cup UNION {Dependencies(s) : s \in S}, n - 1)

TransitiveDependencies(t) == DependenciesWithin(Dependencies(t), NumTasks)

C28_DependentsOfFailedUntouched ==
    pc = "done" =>
        \A t \in Tasks :
            (\E f \in TransitiveDependencies(t) : Status(f) = "failed") =>
                /\ Status(t) = "pending"
                /\ tasks[t].retry_count = 0
                /\ tasks[t].error = None
                /\ tasks[t].output_data = None
                /\ outcome[t] = "none"

C28_Witness ==
    /\ pc = "done"
    /\ Dependencies(1) = {} /\ Dependencies(2) = {1} /\ Dependencies(3) = {2}
    /\ Status(1) = "failed" /\ Status(2) = "pending" /\ Status(3) = "pending"

\* C29: the step in which wait returns gives an outcome that names the
\* status the request has at that moment.
C29_OutcomeNamesStatus ==
    [][wpc # "returned" /\ wpc' = "returned" => wait_result'.kind = req_status']_vars

\* C30: get_workflow_status gives running from the call of execute to its
\* return, and None before the first call and whenever execute has
\* returned, whether the loop ended or raised.
C30_InTableWhileExecuting ==
    /\ InExecute => get_workflow_status = "running"
    /\ pc \in {"idle", "done"} => get_workflow_status = "None"

C30_Witness ==
    /\ pc = "done" /\ wf_status = "failed" /\ iteration = 2
    /\ \A t \in Tasks : Status(t) # "failed"
    /\ Status(1) = "completed"
    /\ get_workflow_status = "None"
====
